---------------------------- MODULE Spec2Model ----------------------------
(***************************************************************************)
(* A model of the UDPv4 transport (src/cpp/transport/UDPv4Transport.cpp)   *)
(* and of the receiver resource bound to one of its input channels         *)
(* (src/cpp/rtps/network/ReceiverResource.cpp).                            *)
(*                                                                         *)
(* The state is the transport's three socket pools, the operating system's *)
(* table of open sockets, the position and locals of every application     *)
(* thread inside a transport call (with the receive it has outstanding on  *)
(* a socket or completed on the io_service), and the closures of every     *)
(* receiver resource.  An operation whose whole body runs under one pool   *)
(* mutex is one action; OpenOutputChannel and Receive release the mutex in *)
(* the middle and are one action per critical section.  The variable last  *)
(* records the call entered or returned last: its arguments, its result    *)
(* and the socket calls it made.                                           *)
(***************************************************************************)
EXTENDS Integers, Sequences, FiniteSets, TLC

(***************************************************************************)
(* Bounds of the model.                                                    *)
(***************************************************************************)
MaxPort == 2
MaxSize == 2
\* datagrams the receive buffer of a socket holds; one more is dropped
MaxQueue == 1

(***************************************************************************)
(* The kind of the locators of the transport, and the buffer sizes of its  *)
(* descriptor: the sizes of the model hold one that is too large to send   *)
(* and those that are too small to receive into.                           *)
(***************************************************************************)
LOCATOR_KIND_UDPv4 == 1
mSendBufferSize == MaxSize - 1
mReceiveBufferSize == MaxSize

Threads == {"t1", "t2"}
MainThread == "t1"
Resources == {"r1", "r2"}

Ports == 1..MaxPort
Sizes == 0..MaxSize
\* the values the caller's output size may hold when it calls Receive
OutSizes == {0, MaxSize}

(***************************************************************************)
(* IPv4 addresses are four octets; a locator holds 16 address bytes, the   *)
(* IPv4 address in the last four.                                          *)
(***************************************************************************)
AnyIP == <<0, 0, 0, 0>>
IfA == <<10, 0, 0, 1>>
IfB == <<10, 0, 0, 2>>
NonLocalIP == <<10, 0, 0, 9>>
McastIP == <<239, 0, 0, 1>>
PeerIP == <<10, 0, 0, 7>>

Address16(ip) == <<0, 0, 0, 0, 0, 0, 0, 0, 0, 0, 0, 0>> \o ip

Locator(kind, ip, port) == [kind |-> kind, address |-> Address16(ip), port |-> port]

to_IP4_string(locator) == SubSeq(locator.address, 13, 16)

\* the IPv4 addresses IPFinder::getIPs reports for this host
LocalIPs == <<IfA, IfB>>

\* the whitelists a descriptor may carry
WhiteLists == {<<>>, <<IfA, IfB>>, <<IfB, NonLocalIP>>, <<NonLocalIP>>}

\* a locator of another kind
UnsupportedLocator == Locator(LOCATOR_KIND_UDPv4 + 1, AnyIP, 1)
InputLocators ==
    {Locator(LOCATOR_KIND_UDPv4, AnyIP, p) : p \in Ports}
        \cup {Locator(LOCATOR_KIND_UDPv4, McastIP, 1), UnsupportedLocator}
OutputLocators ==
    {Locator(LOCATOR_KIND_UDPv4, AnyIP, p) : p \in Ports}
        \cup {Locator(LOCATOR_KIND_UDPv4, IfA, 1), UnsupportedLocator}
ResourceLocators ==
    {Locator(LOCATOR_KIND_UDPv4, ip, 1) : ip \in {AnyIP, McastIP}}
NoLocator == Locator(0, AnyIP, 0)
\* the remote locators given to RemoteToMainLocal
RemoteLocators ==
    {Locator(kind, ip, port) :
        kind \in {LOCATOR_KIND_UDPv4, LOCATOR_KIND_UDPv4 + 1},
        ip \in {PeerIP, McastIP}, port \in Ports}
SenderEndpoints == {[address |-> PeerIP, port |-> 1]}
\* the remote locators of Send: a peer on another host, and the input
\* channel of port 1 of a transport of this host
PeerLocator == Locator(LOCATOR_KIND_UDPv4, PeerIP, 1)
HostLocator == Locator(LOCATOR_KIND_UDPv4, IfA, 1)

VARIABLES
    mGranularMode,           \* descriptor.granularMode
    mInterfaceWhiteList,     \* sequence of IPv4 addresses
    mInputSockets,           \* port -> socket
    mOutputSockets,          \* port -> sequence of sockets (shared mode)
    mGranularOutputSockets,  \* locator -> socket (granular mode)
    sockets,                 \* open OS sockets: socket -> [ip, port, groups]
    pc,                      \* per thread: where it is inside a call
    call,                    \* per thread: the locator of the call in progress
    rcv,                     \* per thread: the locals of Receive
    res,                     \* per receiver resource: its closures
    last                     \* the call entered or returned last

vars == <<mGranularMode, mInterfaceWhiteList, mInputSockets, mOutputSockets,
          mGranularOutputSockets, sockets, pc, call, rcv, res, last>>

config == <<mGranularMode, mInterfaceWhiteList>>
pools == <<mInputSockets, mOutputSockets, mGranularOutputSockets>>

EmptyMap == [x \in {} |-> 0]

Range(s) == {s[i] : i \in DOMAIN s}

Restrict(f, S) == [x \in S |-> f[x]]

Extend(f, k, v) == [x \in DOMAIN f \cup {k} |-> IF x = k THEN v ELSE f[x]]

Bool(b) == IF b THEN "true" ELSE "false"

(***************************************************************************)
(* A socket object is named by the pool entry it is made for and its place *)
(* in the entry: the i-th socket of the input port, of the output port, or *)
(* of the granular locator.                                                *)
(***************************************************************************)
NoSocket == [pool |-> "none", key |-> NoLocator, i |-> 0]

InputSocket(port) ==
    [pool |-> "mInputSockets", key |-> Locator(LOCATOR_KIND_UDPv4, AnyIP, port),
     i |-> 1]

OutputSocket(port, i) ==
    [pool |-> "mOutputSockets", key |-> Locator(LOCATOR_KIND_UDPv4, AnyIP, port),
     i |-> i]

GranularSocket(locator, i) ==
    [pool |-> "mGranularOutputSockets", key |-> locator, i |-> i]

\* who made a transport call: the application, or a method of a resource
AppCaller == [res |-> "none", method |-> "none"]

ResourceCaller(r, method) == [res |-> r, method |-> method]

(***************************************************************************)
(* The record of a call.  ret is "true", "false", "throw" (an exception    *)
(* left the call) or "running" (the call has not returned); caller tells   *)
(* who made the call; n is the size or capacity argument; created,         *)
(* cancelled and closed are the sockets the call bound, called cancel() on *)
(* and closed; sent is the outcome of each transmission in order;          *)
(* bindError tells that a socket call of the binding threw; join is what   *)
(* became of the multicast join;                                           *)
(* outSize and remote are Receive's outputs; aborted tells that the        *)
(* receive was outstanding on its socket when the socket was cancelled;     *)
(* mainLocal is the locator RemoteToMainLocal returned.                    *)
(***************************************************************************)
Result(op, t, caller, locator, ret) ==
    [op |-> op, t |-> t, caller |-> caller, loc |-> locator, ret |-> ret,
     n |-> 0, created |-> {}, cancelled |-> {}, closed |-> {}, sent |-> <<>>,
     bindError |-> FALSE, join |-> "none", outSize |-> 0, remote |-> NoLocator,
     aborted |-> FALSE, mainLocal |-> NoLocator]

NoLocals ==
    [op |-> "none", sock |-> NoSocket, error |-> FALSE, bytes |-> 0,
     sender |-> [address |-> AnyIP, port |-> 0], cancelled |-> FALSE,
     receiveBufferSize |-> 0, success |-> FALSE, receiveSemaphore |-> 0,
     capacity |-> 0, caller |-> AppCaller]

\* a resource: its members, and what happened to it: aborted (Abort was
\* called on it), moved (it was the source of a move construction), source
\* (the resource it was move-constructed from) and closed (the Cleanup it
\* holds has closed a channel)
NoResource ==
    [state |-> "unconstructed", mValid |-> FALSE, Cleanup |-> NoLocator,
     ReceiveFromAssociatedChannel |-> NoLocator,
     LocatorMapsToManagedChannel |-> NoLocator, aborted |-> FALSE,
     moved |-> FALSE, source |-> "none", closed |-> FALSE]

(***************************************************************************)
(* Predicates of the transport.                                            *)
(***************************************************************************)
IsLocatorSupported(locator) == locator.kind = LOCATOR_KIND_UDPv4

IsInputChannelOpen(locator) ==
    IsLocatorSupported(locator) /\ locator.port \in DOMAIN mInputSockets

IsOutputChannelOpen(locator) ==
    IF ~IsLocatorSupported(locator) THEN FALSE
    ELSE IF mGranularMode THEN locator \in DOMAIN mGranularOutputSockets
    ELSE locator.port \in DOMAIN mOutputSockets

IsMulticastAddress(locator) ==
    locator.address[13] >= 224 /\ locator.address[13] <= 239

IsInterfaceAllowed(ip) ==
    IF mInterfaceWhiteList = <<>> THEN TRUE
    ELSE IF ip = AnyIP THEN TRUE
    ELSE ip \in Range(mInterfaceWhiteList)

DoLocatorsMatch(left, right) ==
    IF mGranularMode THEN left = right ELSE left.port = right.port

(***************************************************************************)
(* Socket calls.  cancel() completes every receive outstanding on the      *)
(* socket with an error and queues its handler on the io_service; close()  *)
(* releases the OS handle.                                                 *)
(***************************************************************************)
\* a variant of cancel() that completes no receive
cancel_nothing(r, S) == r

socket_cancel(r, S) ==
    [t \in Threads |->
        IF r[t].op = "pending" /\ r[t].sock \in S
        THEN [r[t] EXCEPT !.op = "ready", !.error = TRUE, !.bytes = 0,
                          !.cancelled = TRUE]
        ELSE r[t]]

\* a variant of close() that releases no handle
close_nothing(socks, S) == socks

socket_close(socks, S) == Restrict(socks, DOMAIN socks \ S)

OpenAndBindInputSocket(port) ==
    [ip |-> AnyIP, port |-> port, groups |-> {}, reuse_address |-> TRUE,
     queue |-> <<>>]

OpenAndBindUnicastOutputSocket(ipAddress, port) ==
    [ip |-> ipAddress, port |-> port, groups |-> {}, reuse_address |-> FALSE]

\* mInputSockets.emplace(port, OpenAndBindInputSocket(port)), or the catch
\* clause when the socket calls throw, lines 248-265: [ok, inp, socks, created]
OpenAndBindInputSockets(port, bindOk) ==
    LET socket == InputSocket(port)
        had == port \in DOMAIN mInputSockets
    IN  IF bindOk
        THEN [ok |-> TRUE,
              inp |-> IF had THEN mInputSockets
                      ELSE Extend(mInputSockets, port, socket),
              socks |-> IF had THEN sockets
                        ELSE Extend(sockets, socket, OpenAndBindInputSocket(port)),
              created |-> {socket}]
        ELSE [ok |-> FALSE,
              inp |-> Restrict(mInputSockets, DOMAIN mInputSockets \ {port}),
              socks |-> IF had THEN socket_close(sockets, {mInputSockets[port]})
                        ELSE sockets,
              created |-> {}]

\* socket.set_option(ip::multicast::join_group(...)), line 121
join_group(socks, socket, locator) ==
    [socks EXCEPT ![socket].groups = @ \cup {to_IP4_string(locator)}]

(***************************************************************************)
(* OpenInputChannel, lines 105-125.  bindOk and joinOk are the operating   *)
(* system's answers to bind and to the multicast join.                     *)
(***************************************************************************)
OpenInputChannel(t, caller, locator, bindOk, joinOk) ==
    IF ~IsLocatorSupported(locator)
    THEN /\ last' = Result("OpenInputChannel", t, caller, locator, "false")
         /\ UNCHANGED <<mInputSockets, sockets>>
    ELSE LET opened == IF ~IsInputChannelOpen(locator)
                       THEN OpenAndBindInputSockets(locator.port, bindOk)
                       ELSE [ok |-> TRUE, inp |-> mInputSockets,
                             socks |-> sockets, created |-> {}]
             success == ~IsInputChannelOpen(locator) /\ opened.ok
             join == IsMulticastAddress(locator)
                        /\ locator.port \in DOMAIN opened.inp
             socket == opened.inp[locator.port]
         IN  /\ mInputSockets' = opened.inp
             /\ sockets' = IF join /\ joinOk
                           THEN join_group(opened.socks, socket, locator)
                           ELSE opened.socks
             /\ last' = [Result("OpenInputChannel", t, caller, locator,
                                IF join /\ ~joinOk THEN "throw" ELSE Bool(success))
                            EXCEPT !.created = opened.created,
                                   !.bindError = ~opened.ok,
                                   !.join = IF ~join THEN "none"
                                            ELSE IF joinOk THEN "joined"
                                            ELSE "failed"]

(***************************************************************************)
(* CloseInputChannel, lines 155-168.                                       *)
(***************************************************************************)
CloseInputChannel(t, caller, locator) ==
    IF ~IsInputChannelOpen(locator)
    THEN /\ last' = Result("CloseInputChannel", t, caller, locator, "false")
         /\ UNCHANGED <<mInputSockets, sockets, rcv>>
    ELSE LET socket == mInputSockets[locator.port]
         IN  /\ rcv' = socket_cancel(rcv, {socket})
             /\ sockets' = socket_close(sockets, {socket})
             /\ mInputSockets' =
                    Restrict(mInputSockets, DOMAIN mInputSockets \ {locator.port})
             /\ last' = [Result("CloseInputChannel", t, caller, locator, "true")
                            EXCEPT !.cancelled = {socket}, !.closed = {socket}]

\* a variant of OpenOutputChannel that goes on to bind whatever the channel
OpenOutputChannelUnchecked(t, locator) ==
    /\ pc[t] = "idle"
    /\ pc' = [pc EXCEPT ![t] = "OpenOutputChannel"]
    /\ call' = [call EXCEPT ![t] = locator]
    /\ last' = Result("OpenOutputChannel", t, AppCaller, locator, "running")
    /\ UNCHANGED <<config, pools, sockets, rcv, res>>

(***************************************************************************)
(* OpenOutputChannel, lines 88-98: the check under the output mutex, then  *)
(* (the mutex released in between) the binding.                            *)
(***************************************************************************)
OpenOutputChannel(t, locator) ==
    /\ pc[t] = "idle"
    /\ IF IsOutputChannelOpen(locator) \/ ~IsLocatorSupported(locator)
       THEN /\ last' = Result("OpenOutputChannel", t, AppCaller, locator, "false")
            /\ UNCHANGED <<pc, call>>
       ELSE /\ pc' = [pc EXCEPT ![t] = "OpenOutputChannel"]
            /\ call' = [call EXCEPT ![t] = locator]
            /\ last' = Result("OpenOutputChannel", t, AppCaller, locator, "running")
    /\ UNCHANGED <<config, pools, sockets, rcv, res>>

\* a variant of the interface selection that does not consult the whitelist
EveryInterface ==
    IF mInterfaceWhiteList = <<>> THEN <<AnyIP>> ELSE LocalIPs

\* the interfaces OpenAndBindOutputSockets binds a socket on, in order
InterfacesToBind ==
    IF mInterfaceWhiteList = <<>> THEN <<AnyIP>>
    ELSE SelectSeq(LocalIPs, IsInterfaceAllowed)

\* a variant of OpenAndBindOutputSockets whose catch clause does not erase
\* the entry: the sockets bound before the failure stay in the pool
OpenAndBindOutputSocketsNoErase(port, failAt) ==
    LET ips == InterfacesToBind
        bound == IF failAt = 0 THEN Len(ips) ELSE failAt - 1
        old == IF port \in DOMAIN mOutputSockets THEN mOutputSockets[port]
               ELSE <<>>
        new == [k \in 1..bound |-> OutputSocket(port, Len(old) + k)]
    IN  [ok |-> failAt = 0,
         out |-> IF bound = 0 THEN mOutputSockets
                 ELSE Extend(mOutputSockets, port, old \o new),
         socks |-> [s \in DOMAIN sockets \cup Range(new) |->
                       IF s \in DOMAIN sockets THEN sockets[s]
                       ELSE OpenAndBindUnicastOutputSocket(
                                ips[s.i - Len(old)], port)],
         created |-> Range(new),
         closed |-> {},
         bindError |-> failAt # 0]

\* lines 190-222; the failAt-th bind throws (0: none does):
\* [ok, out, socks, created, closed]
OpenAndBindOutputSockets(port, failAt) ==
    LET ips == InterfacesToBind
        bound == IF failAt = 0 THEN Len(ips) ELSE failAt - 1
        old == IF port \in DOMAIN mOutputSockets THEN mOutputSockets[port]
               ELSE <<>>
        new == [k \in 1..bound |-> OutputSocket(port, Len(old) + k)]
    IN  IF failAt = 0
        THEN [ok |-> TRUE,
              out |-> IF bound = 0 THEN mOutputSockets
                      ELSE Extend(mOutputSockets, port, old \o new),
              socks |-> [s \in DOMAIN sockets \cup Range(new) |->
                            IF s \in DOMAIN sockets THEN sockets[s]
                            ELSE OpenAndBindUnicastOutputSocket(
                                     ips[s.i - Len(old)], port)],
              created |-> Range(new),
              closed |-> {},
              bindError |-> FALSE]
        ELSE [ok |-> FALSE,
              out |-> Restrict(mOutputSockets, DOMAIN mOutputSockets \ {port}),
              socks |-> socket_close(sockets, Range(old)),
              created |-> Range(new),
              closed |-> Range(new) \cup Range(old),
              bindError |-> TRUE]

\* lines 224-246: [ok, out, socks, created, closed]
OpenAndBindGranularOutputSocket(locator, failAt) ==
    LET ip == to_IP4_string(locator)
        had == locator \in DOMAIN mGranularOutputSockets
        socket == GranularSocket(locator, IF had THEN 2 ELSE 1)
    IN  IF ~IsInterfaceAllowed(ip)
        THEN [ok |-> FALSE, out |-> mGranularOutputSockets, socks |-> sockets,
              created |-> {}, closed |-> {}, bindError |-> FALSE]
        ELSE IF failAt = 0
        THEN [ok |-> TRUE,
              out |-> IF had THEN mGranularOutputSockets
                      ELSE Extend(mGranularOutputSockets, locator, socket),
              socks |-> IF had THEN sockets
                        ELSE Extend(sockets, socket,
                                 OpenAndBindUnicastOutputSocket(ip, locator.port)),
              created |-> {socket},
              closed |-> IF had THEN {socket} ELSE {},
              bindError |-> FALSE]
        ELSE [ok |-> FALSE,
              out |-> Restrict(mGranularOutputSockets,
                               DOMAIN mGranularOutputSockets \ {locator}),
              socks |-> IF had
                        THEN socket_close(sockets, {mGranularOutputSockets[locator]})
                        ELSE sockets,
              created |-> {},
              closed |-> IF had THEN {mGranularOutputSockets[locator]} ELSE {},
              bindError |-> TRUE]

OpenOutputChannelBind(t, failAt) ==
    /\ pc[t] = "OpenOutputChannel"
    /\ failAt <= (IF mGranularMode THEN 1 ELSE Len(InterfacesToBind))
    /\ LET locator == call[t]
           opened == IF mGranularMode
                     THEN OpenAndBindGranularOutputSocket(locator, failAt)
                     ELSE OpenAndBindOutputSockets(locator.port, failAt)
       IN  /\ IF mGranularMode
              THEN /\ mGranularOutputSockets' = opened.out
                   /\ UNCHANGED mOutputSockets
              ELSE /\ mOutputSockets' = opened.out
                   /\ UNCHANGED mGranularOutputSockets
           /\ sockets' = opened.socks
           /\ last' = [Result("OpenOutputChannel", t, AppCaller, locator,
                              Bool(opened.ok))
                          EXCEPT !.created = opened.created,
                                 !.closed = opened.closed,
                                 !.bindError = opened.bindError]
    /\ pc' = [pc EXCEPT ![t] = "idle"]
    /\ call' = [call EXCEPT ![t] = NoLocator]
    /\ UNCHANGED <<config, mInputSockets, rcv, res>>

\* the sockets of the output channel of locator, in the order of the pool
OutputSocketsOf(locator) ==
    IF mGranularMode THEN <<mGranularOutputSockets[locator]>>
    ELSE mOutputSockets[locator.port]

\* a variant of CloseOutputChannel that, in granular mode too, closes every
\* channel of the port of the locator
CloseOutputChannelOfPort(t, locator) ==
    /\ pc[t] = "idle"
    /\ IF ~IsOutputChannelOpen(locator)
       THEN /\ last' = Result("CloseOutputChannel", t, AppCaller, locator, "false")
            /\ UNCHANGED <<pools, sockets>>
       ELSE LET keys == {l \in DOMAIN mGranularOutputSockets :
                            l.port = locator.port}
                closing == IF mGranularMode
                           THEN {mGranularOutputSockets[l] : l \in keys}
                           ELSE Range(OutputSocketsOf(locator))
            IN  /\ sockets' = socket_close(sockets, closing)
                /\ mGranularOutputSockets' =
                       Restrict(mGranularOutputSockets,
                                DOMAIN mGranularOutputSockets \ keys)
                /\ mOutputSockets' =
                       Restrict(mOutputSockets,
                                DOMAIN mOutputSockets \ {locator.port})
                /\ UNCHANGED mInputSockets
                /\ last' = [Result("CloseOutputChannel", t, AppCaller, locator, "true")
                               EXCEPT !.cancelled = closing, !.closed = closing]
    /\ UNCHANGED <<config, pc, call, rcv, res>>

(***************************************************************************)
(* CloseOutputChannel, lines 127-153.                                      *)
(***************************************************************************)
CloseOutputChannel(t, locator) ==
    /\ pc[t] = "idle"
    /\ IF ~IsOutputChannelOpen(locator)
       THEN /\ last' = Result("CloseOutputChannel", t, AppCaller, locator, "false")
            /\ UNCHANGED <<pools, sockets>>
       ELSE LET closing == Range(OutputSocketsOf(locator))
            IN  /\ sockets' = socket_close(sockets, closing)
                /\ IF mGranularMode
                   THEN /\ mGranularOutputSockets' =
                               Restrict(mGranularOutputSockets,
                                        DOMAIN mGranularOutputSockets \ {locator})
                        /\ UNCHANGED mOutputSockets
                   ELSE /\ mOutputSockets' =
                               Restrict(mOutputSockets,
                                        DOMAIN mOutputSockets \ {locator.port})
                        /\ UNCHANGED mGranularOutputSockets
                /\ UNCHANGED mInputSockets
                /\ last' = [Result("CloseOutputChannel", t, AppCaller, locator, "true")
                               EXCEPT !.cancelled = closing, !.closed = closing]
    /\ UNCHANGED <<config, pc, call, rcv, res>>

(***************************************************************************)
(* Send, lines 317-339, with SendThroughSocket, lines 396-422.  sendOk[i]  *)
(* tells whether send_to on the i-th socket of the channel returns or      *)
(* throws.                                                                 *)
(***************************************************************************)
SendThroughSocket(socket, ok) == [socket |-> socket, ok |-> ok]

SendFanOut(socks, sendOk) ==
    [i \in DOMAIN socks |-> SendThroughSocket(socks[i], sendOk[i])]

\* a variant of the accumulation of line 335 that wants every transmission
\* to succeed
SendSuccessAll(sent) == \A i \in DOMAIN sent : sent[i].ok

SendSuccess(sent) == \E i \in DOMAIN sent : sent[i].ok

\* the endpoint a datagram sent through socket carries as its source: the
\* address the socket is bound to, or that of the interface the datagram
\* leaves by when the socket is bound to the wildcard address
SourceEndpoint(socket) ==
    [address |-> IF sockets[socket].ip = AnyIP THEN LocalIPs[1]
                 ELSE sockets[socket].ip,
     port |-> sockets[socket].port]

\* the datagrams of the transmissions sent[i..] that succeeded arrive at the
\* socket bound to the port of remoteLocator on this host, if there is one
\* and while its receive buffer has room
RECURSIVE Arrive(_, _, _, _, _)
Arrive(socks, sent, i, n, remoteLocator) ==
    IF i > Len(sent) THEN socks
    ELSE LET to == InputSocket(remoteLocator.port)
             here == /\ sent[i].ok
                     /\ to_IP4_string(remoteLocator) \in Range(LocalIPs)
                     /\ to \in DOMAIN socks
                     /\ Len(socks[to].queue) < MaxQueue
             datagram == [bytes |-> n, sender |-> SourceEndpoint(sent[i].socket)]
         IN  Arrive(IF here
                    THEN [socks EXCEPT ![to].queue = Append(@, datagram)]
                    ELSE socks,
                    sent, i + 1, n, remoteLocator)

\* a variant of Send without the size check of line 321
SendAnySize(t, sendBufferSize, localLocator, remoteLocator, sendOk) ==
    /\ pc[t] = "idle"
    /\ IF ~IsOutputChannelOpen(localLocator)
       THEN /\ last' = [Result("Send", t, AppCaller, localLocator, "false")
                           EXCEPT !.n = sendBufferSize]
            /\ UNCHANGED sockets
       ELSE LET sent == SendFanOut(OutputSocketsOf(localLocator), sendOk)
            IN  /\ last' = [Result("Send", t, AppCaller, localLocator,
                                   Bool(SendSuccess(sent)))
                               EXCEPT !.n = sendBufferSize, !.sent = sent]
                /\ sockets' = Arrive(sockets, sent, 1, sendBufferSize,
                                     remoteLocator)
    /\ UNCHANGED <<config, pools, pc, call, rcv, res>>

Send(t, sendBufferSize, localLocator, remoteLocator, sendOk) ==
    /\ pc[t] = "idle"
    /\ IF ~IsOutputChannelOpen(localLocator) \/ sendBufferSize > mSendBufferSize
       THEN /\ last' = [Result("Send", t, AppCaller, localLocator, "false")
                           EXCEPT !.n = sendBufferSize]
            /\ UNCHANGED sockets
       ELSE LET sent == SendFanOut(OutputSocketsOf(localLocator), sendOk)
            IN  /\ last' = [Result("Send", t, AppCaller, localLocator,
                                   Bool(SendSuccess(sent)))
                               EXCEPT !.n = sendBufferSize, !.sent = sent]
                /\ sockets' = Arrive(sockets, sent, 1, sendBufferSize,
                                     remoteLocator)
    /\ UNCHANGED <<config, pools, pc, call, rcv, res>>

(***************************************************************************)
(* RemoteToMainLocal, lines 307-315.  The false of line 310 is converted   *)
(* to a locator by the constructor Locator_t(uint32_t port), which makes a *)
(* locator of kind LOCATOR_KIND_UDPv4 with that port and a zero address.   *)
(***************************************************************************)
Locator_t(port) == Locator(LOCATOR_KIND_UDPv4, AnyIP, port)

\* a variant of RemoteToMainLocal without the memset of line 313
RemoteToMainLocalCopy(remote) ==
    IF ~IsLocatorSupported(remote) THEN Locator_t(0) ELSE remote

RemoteToMainLocal(remote) ==
    IF ~IsLocatorSupported(remote) THEN Locator_t(0)
    ELSE LET mainLocal == remote
         IN  [mainLocal EXCEPT !.address = [i \in 1..16 |-> 0]]

CallRemoteToMainLocal(t, remote) ==
    /\ pc[t] = "idle"
    /\ last' = [Result("RemoteToMainLocal", t, AppCaller, remote, "locator")
                   EXCEPT !.mainLocal = RemoteToMainLocal(remote)]
    /\ UNCHANGED <<config, pools, sockets, pc, call, rcv, res>>

(***************************************************************************)
(* Receive, lines 348-394.  ReceiveCall is the check of lines 351-353,     *)
(* ReceiveSubmit the lock scope of lines 378-387, ReceiveWait the wait on  *)
(* the semaphore and the return.  outSize is the value the caller's output *)
(* variable holds when the call is made.                                   *)
(***************************************************************************)
EndpointToLocator(endpoint, locator) ==
    [locator EXCEPT !.port = endpoint.port,
                    !.address = SubSeq(locator.address, 1, 12) \o endpoint.address]

ReceiveCall(t, caller, receiveBufferCapacity, outSize, localLocator) ==
    /\ pc[t] = "idle"
    /\ IF ~IsInputChannelOpen(localLocator)
            \/ receiveBufferCapacity < mReceiveBufferSize
       THEN /\ last' = [Result("Receive", t, caller, localLocator, "false")
                           EXCEPT !.n = receiveBufferCapacity,
                                  !.outSize = outSize]
            /\ UNCHANGED <<pc, call, rcv>>
       ELSE /\ pc' = [pc EXCEPT ![t] = "Receive"]
            /\ call' = [call EXCEPT ![t] = localLocator]
            /\ rcv' = [rcv EXCEPT ![t] =
                          [NoLocals EXCEPT !.receiveBufferSize = outSize,
                                           !.capacity = receiveBufferCapacity,
                                           !.caller = caller]]
            /\ last' = [Result("Receive", t, caller, localLocator, "running")
                           EXCEPT !.n = receiveBufferCapacity,
                                  !.outSize = outSize]
    /\ UNCHANGED <<config, pools, sockets>>

\* socket.async_receive_from(...), lines 384-386
async_receive_from(l, socket) == [l EXCEPT !.op = "pending", !.sock = socket]

\* a variant of the lock scope without the check of lines 380-381: the
\* receive is submitted on the socket of the port, in the pool or not
ReceiveSubmitUnchecked(t) ==
    /\ rcv' = [rcv EXCEPT ![t] =
                  async_receive_from(rcv[t], InputSocket(call[t].port))]
    /\ pc' = [pc EXCEPT ![t] = "Wait"]
    /\ UNCHANGED <<config, pools, sockets, res, call, last>>

ReceiveSubmitScope(t) ==
    /\ IF ~IsInputChannelOpen(call[t])
       THEN /\ last' = [Result("Receive", t, rcv[t].caller, call[t], "false")
                           EXCEPT !.n = rcv[t].capacity,
                                  !.outSize = rcv[t].receiveBufferSize]
            /\ pc' = [pc EXCEPT ![t] = "idle"]
            /\ call' = [call EXCEPT ![t] = NoLocator]
            /\ rcv' = [rcv EXCEPT ![t] = NoLocals]
       ELSE /\ rcv' = [rcv EXCEPT ![t] =
                          async_receive_from(rcv[t], mInputSockets[call[t].port])]
            /\ pc' = [pc EXCEPT ![t] = "Wait"]
            /\ UNCHANGED <<call, last>>
    /\ UNCHANGED <<config, pools, sockets, res>>

\* lines 378-387 as one step: the lock is taken and released in it
ReceiveSubmit(t) ==
    /\ pc[t] = "Receive"
    /\ ReceiveSubmitScope(t)

\* a datagram of n bytes from sender completes the receive of thread t
DatagramArrives(t, n, sender) ==
    /\ rcv[t].op = "pending"
    /\ rcv' = [rcv EXCEPT ![t].op = "ready", ![t].error = FALSE,
                          ![t].bytes = n, ![t].sender = sender]
    /\ UNCHANGED <<config, pools, sockets, pc, call, res, last>>

\* the receive of thread t completes with the first datagram of the receive
\* buffer of its socket
ReceiveQueued(t) ==
    /\ rcv[t].op = "pending"
    /\ rcv[t].sock \in DOMAIN sockets
    /\ sockets[rcv[t].sock].queue # <<>>
    /\ LET datagram == Head(sockets[rcv[t].sock].queue)
       IN  rcv' = [rcv EXCEPT ![t].op = "ready", ![t].error = FALSE,
                              ![t].bytes = datagram.bytes,
                              ![t].sender = datagram.sender]
    /\ sockets' = [sockets EXCEPT ![rcv[t].sock].queue = Tail(@)]
    /\ UNCHANGED <<config, pools, pc, call, res, last>>

\* the operating system fails the receive of thread t
ReceiveError(t) ==
    /\ rcv[t].op = "pending"
    /\ rcv' = [rcv EXCEPT ![t].op = "ready", ![t].error = TRUE, ![t].bytes = 0]
    /\ UNCHANGED <<config, pools, sockets, pc, call, res, last>>

\* a variant of the handler that does not store bytes_transferred
handlerKeepsSize(l) ==
    IF l.error
    THEN [l EXCEPT !.op = "none", !.receiveBufferSize = 0,
                   !.receiveSemaphore = @ + 1]
    ELSE [l EXCEPT !.op = "none", !.success = TRUE,
                   !.receiveSemaphore = @ + 1]

\* the completion handler of lines 358-374
handler(l) ==
    IF l.error
    THEN [l EXCEPT !.op = "none", !.receiveBufferSize = 0,
                   !.receiveSemaphore = @ + 1]
    ELSE [l EXCEPT !.op = "none", !.receiveBufferSize = l.bytes,
                   !.success = TRUE, !.receiveSemaphore = @ + 1]

\* the io_service thread runs the handler of a completed receive, lines 37-41
IoServiceRun(t) ==
    /\ rcv[t].op = "ready"
    /\ rcv' = [rcv EXCEPT ![t] = handler(rcv[t])]
    /\ UNCHANGED <<config, pools, sockets, pc, call, res, last>>

\* lines 389-393
ReceiveWait(t) ==
    /\ pc[t] = "Wait"
    /\ rcv[t].receiveSemaphore > 0
    /\ last' = [Result("Receive", t, rcv[t].caller, call[t],
                       Bool(rcv[t].success))
                   EXCEPT !.n = rcv[t].capacity,
                          !.outSize = rcv[t].receiveBufferSize,
                          !.remote = IF rcv[t].success
                                     THEN EndpointToLocator(rcv[t].sender, NoLocator)
                                     ELSE NoLocator,
                          !.aborted = rcv[t].cancelled]
    /\ pc' = [pc EXCEPT ![t] = "idle"]
    /\ call' = [call EXCEPT ![t] = NoLocator]
    /\ rcv' = [rcv EXCEPT ![t] = NoLocals]
    /\ UNCHANGED <<config, pools, sockets, res>>

(***************************************************************************)
(* The receiver resource, ReceiverResource.cpp.  An empty std::function is *)
(* NoLocator; a bound one is the locator it captured.                      *)
(***************************************************************************)
\* the constructor, lines 10-23: what the resource is after OpenInputChannel
\* returned opened, or stays when it threw
Constructed(resource, locator, opened) ==
    IF opened = "throw" THEN resource
    ELSE IF opened = "false"
    THEN [resource EXCEPT !.state = "alive", !.mValid = FALSE]
    ELSE [resource EXCEPT !.state = "alive", !.mValid = TRUE,
                          !.Cleanup = locator,
                          !.ReceiveFromAssociatedChannel = locator,
                          !.LocatorMapsToManagedChannel = locator]

ReceiverResource(t, r, locator, bindOk, joinOk) ==
    /\ pc[t] = "idle"
    /\ res[r].state = "unconstructed"
    /\ OpenInputChannel(t, ResourceCaller(r, "ReceiverResource"), locator,
                        bindOk, joinOk)
    /\ res' = [res EXCEPT ![r] = Constructed(res[r], locator, last'.ret)]
    /\ UNCHANGED <<config, mOutputSockets, mGranularOutputSockets, pc, call, rcv>>

\* Cleanup of resource r is bound and closes a channel when called now
CleanupCloses(r) ==
    res[r].Cleanup # NoLocator /\ IsInputChannelOpen(res[r].Cleanup)

\* lines 47-51
Abort(t, r) ==
    /\ pc[t] = "idle"
    /\ res[r].state = "alive"
    /\ IF res[r].Cleanup # NoLocator
       THEN CloseInputChannel(t, ResourceCaller(r, "Abort"), res[r].Cleanup)
       ELSE UNCHANGED <<mInputSockets, sockets, rcv, last>>
    /\ res' = [res EXCEPT ![r].aborted = TRUE,
                          ![r].closed = @ \/ CleanupCloses(r)]
    /\ UNCHANGED <<config, mOutputSockets, mGranularOutputSockets, pc, call>>

\* the destructor, lines 53-57
Destroy(t, r) ==
    /\ pc[t] = "idle"
    /\ res[r].state = "alive"
    /\ IF res[r].Cleanup # NoLocator
       THEN CloseInputChannel(t, ResourceCaller(r, "~ReceiverResource"),
                              res[r].Cleanup)
       ELSE UNCHANGED <<mInputSockets, sockets, rcv, last>>
    /\ res' = [res EXCEPT ![r].state = "destroyed",
                          ![r].closed = @ \/ CleanupCloses(r)]
    /\ UNCHANGED <<config, mOutputSockets, mGranularOutputSockets, pc, call>>

\* the move constructor, lines 33-38: the three functions of the new
\* resource, empty by default, are swapped with those of rValueResource;
\* mValid of the new resource is not initialised and holds either value
MoveConstruct(t, r, rValueResource, valid) ==
    /\ pc[t] = "idle"
    /\ r # rValueResource
    /\ res[r].state = "unconstructed"
    /\ res[rValueResource].state = "alive"
    /\ res' = [res EXCEPT
          ![r] = [NoResource EXCEPT
                     !.state = "alive",
                     !.mValid = valid,
                     !.Cleanup = res[rValueResource].Cleanup,
                     !.ReceiveFromAssociatedChannel =
                         res[rValueResource].ReceiveFromAssociatedChannel,
                     !.LocatorMapsToManagedChannel =
                         res[rValueResource].LocatorMapsToManagedChannel,
                     !.source = rValueResource,
                     !.closed = res[rValueResource].closed],
          ![rValueResource] = [@ EXCEPT
                     !.Cleanup = NoResource.Cleanup,
                     !.ReceiveFromAssociatedChannel =
                         NoResource.ReceiveFromAssociatedChannel,
                     !.LocatorMapsToManagedChannel =
                         NoResource.LocatorMapsToManagedChannel,
                     !.moved = TRUE,
                     !.closed = FALSE]]
    /\ UNCHANGED <<config, pools, sockets, pc, call, rcv, last>>

\* lines 25-31
ResourceReceive(t, r, receiveBufferCapacity, outSize) ==
    /\ res[r].state = "alive"
    /\ IF res[r].ReceiveFromAssociatedChannel # NoLocator
       THEN ReceiveCall(t, ResourceCaller(r, "Receive"), receiveBufferCapacity,
                        outSize, res[r].ReceiveFromAssociatedChannel)
       ELSE /\ pc[t] = "idle"
            /\ last' = [Result("Receive", t, ResourceCaller(r, "Receive"),
                               NoLocator, "false")
                           EXCEPT !.n = receiveBufferCapacity,
                                  !.outSize = outSize]
            /\ UNCHANGED <<config, pools, sockets, pc, call, rcv>>
    /\ UNCHANGED res

\* lines 40-45
SupportsLocator(r, localLocator) ==
    IF res[r].LocatorMapsToManagedChannel # NoLocator
    THEN DoLocatorsMatch(res[r].LocatorMapsToManagedChannel, localLocator)
    ELSE FALSE

(***************************************************************************)
(* The calls the application makes on the transport itself.                *)
(***************************************************************************)
AppOpenInputChannel(t, locator, bindOk, joinOk) ==
    /\ pc[t] = "idle"
    /\ OpenInputChannel(t, AppCaller, locator, bindOk, joinOk)
    /\ UNCHANGED <<config, mOutputSockets, mGranularOutputSockets, pc, call,
                   rcv, res>>

AppCloseInputChannel(t, locator) ==
    /\ pc[t] = "idle"
    /\ CloseInputChannel(t, AppCaller, locator)
    /\ UNCHANGED <<config, mOutputSockets, mGranularOutputSockets, pc, call, res>>

AppReceive(t, receiveBufferCapacity, outSize, localLocator) ==
    /\ ReceiveCall(t, AppCaller, receiveBufferCapacity, outSize, localLocator)
    /\ UNCHANGED res

(***************************************************************************)
(* The state after the transport's construction, lines 32-46.              *)
(***************************************************************************)
InitState ==
    /\ mInputSockets = EmptyMap
    /\ mOutputSockets = EmptyMap
    /\ mGranularOutputSockets = EmptyMap
    /\ sockets = EmptyMap
    /\ pc = [t \in Threads |-> "idle"]
    /\ call = [t \in Threads |-> NoLocator]
    /\ rcv = [t \in Threads |-> NoLocals]
    /\ res = [r \in Resources |-> NoResource]
    /\ last = Result("none", MainThread, AppCaller, NoLocator, "false")

Init ==
    /\ mGranularMode \in BOOLEAN
    /\ mInterfaceWhiteList \in WhiteLists
    /\ InitState

\* the io_service thread and the network
IoService ==
    \E t \in Threads :
        \/ IoServiceRun(t)
        \/ ReceiveError(t)
        \/ \E n \in 1..mReceiveBufferSize, sender \in SenderEndpoints :
               DatagramArrives(t, n, sender)

\* thread t opens and closes input channels
InputChannelCalls(t) ==
    \/ \E locator \in InputLocators, bindOk \in BOOLEAN, joinOk \in BOOLEAN :
           AppOpenInputChannel(t, locator, bindOk, joinOk)
    \/ \E locator \in InputLocators : AppCloseInputChannel(t, locator)

\* the calls of thread t on the input side of the transport
InputCalls(t) ==
    \/ InputChannelCalls(t)
    \/ \E locator \in InputLocators, capacity \in Sizes, outSize \in OutSizes :
           AppReceive(t, capacity, outSize, locator)
    \/ ReceiveSubmit(t)
    \/ ReceiveWait(t)

\* the calls of thread t on the output side of the transport
OutputCalls(t) ==
    \/ \E locator \in OutputLocators : OpenOutputChannel(t, locator)
    \/ \E failAt \in 0..Len(LocalIPs) : OpenOutputChannelBind(t, failAt)
    \/ \E locator \in OutputLocators : CloseOutputChannel(t, locator)
    \/ \E locator \in OutputLocators, size \in Sizes :
           \E sendOk \in [IF IsOutputChannelOpen(locator)
                          THEN DOMAIN OutputSocketsOf(locator) ELSE {} -> BOOLEAN] :
               Send(t, size, locator, PeerLocator, sendOk)
    \/ \E remote \in RemoteLocators : CallRemoteToMainLocal(t, remote)

(***************************************************************************)
(* Spec: one application thread opens and closes the channels of a         *)
(* transport of any configuration, and sends.                              *)
(***************************************************************************)
Next ==
    \/ InputChannelCalls(MainThread)
    \/ OutputCalls(MainThread)

Spec == Init /\ [][Next]_vars

(***************************************************************************)
(* TransferSpec: one application thread makes every call of a shared-mode  *)
(* transport without whitelist, Receive included; the io_service thread    *)
(* and the network complete its receives.                                  *)
(***************************************************************************)
SharedInit ==
    /\ mGranularMode = FALSE
    /\ mInterfaceWhiteList = <<>>
    /\ InitState

TransferNext ==
    \/ InputCalls(MainThread)
    \/ OutputCalls(MainThread)
    \/ IoService

TransferSpec == SharedInit /\ [][TransferNext]_vars


(***************************************************************************)
(* ResourceSpec: one application thread creates, aborts and destroys       *)
(* receiver resources over the input channels of a shared-mode transport,  *)
(* next to its own calls on the input side.                                *)
(***************************************************************************)
ResourceCalls(t) ==
    \/ \E r \in Resources, locator \in ResourceLocators,
          bindOk \in BOOLEAN, joinOk \in BOOLEAN :
           ReceiverResource(t, r, locator, bindOk, joinOk)
    \/ \E r \in Resources, rValueResource \in Resources, valid \in BOOLEAN :
           MoveConstruct(t, r, rValueResource, valid)
    \/ \E r \in Resources : Abort(t, r)
    \/ \E r \in Resources : Destroy(t, r)
    \/ \E r \in Resources, capacity \in Sizes, outSize \in OutSizes :
           ResourceReceive(t, r, capacity, outSize)

ResourceNext ==
    \/ ResourceCalls(MainThread)
    \/ InputChannelCalls(MainThread)
    \/ ReceiveSubmit(MainThread)
    \/ ReceiveWait(MainThread)
    \/ IoService

ResourceSpec == SharedInit /\ [][ResourceNext]_vars

(***************************************************************************)
(* FairSpec: the application threads open, close and receive on the input *)
(* channels of port 1 of a shared-mode transport.  The io_service thread   *)
(* runs for the lifetime of the transport (lines 37-42), so a queued       *)
(* handler is run; a thread whose semaphore was posted is scheduled again. *)
(***************************************************************************)
FairCalls(t) ==
    \/ \E locator \in ResourceLocators, bindOk \in BOOLEAN, joinOk \in BOOLEAN :
           AppOpenInputChannel(t, locator, bindOk, joinOk)
    \/ \E locator \in ResourceLocators : AppCloseInputChannel(t, locator)
    \/ \E locator \in ResourceLocators, capacity \in Sizes, outSize \in OutSizes :
           AppReceive(t, capacity, outSize, locator)
    \/ ReceiveSubmit(t)
    \/ ReceiveWait(t)

FairNext ==
    \/ \E t \in Threads : FairCalls(t)
    \/ IoService

FairSpec ==
    /\ SharedInit
    /\ [][FairNext]_vars
    /\ \A t \in Threads : WF_vars(IoServiceRun(t))
    /\ \A t \in Threads : WF_vars(ReceiveWait(t))


(***************************************************************************)
(* The mutexes.  Every lock of the transport is a scoped unique_lock on a  *)
(* boost::recursive_mutex, so the mutexes a thread holds are those of the  *)
(* scopes its position lies in: mOutputMapMutex from line 319 to the       *)
(* return of Send, mInputMapMutex within the scope of lines 378-387.  A    *)
(* lock scope that is one step of the model is entered and left within     *)
(* that step.                                                              *)
(***************************************************************************)
Mutexes == {"mInputMapMutex", "mOutputMapMutex"}

\* the locator of the channels of port 1
PortOne == Locator(LOCATOR_KIND_UDPv4, AnyIP, 1)

Holds(t, mutex) ==
    \/ mutex = "mOutputMapMutex" /\ pc[t] \in {"Send", "SendThroughSocket"}
    \/ mutex = "mInputMapMutex" /\ pc[t] = "ReceiveLocked"

\* the mutex each function of the transport locks in a scope of its own, and
\* the functions it calls from within that scope
LockScopes ==
    [IsInputChannelOpen |-> {"mInputMapMutex"},
     IsOutputChannelOpen |-> {"mOutputMapMutex"},
     OpenOutputChannel |-> {},
     OpenInputChannel |-> {"mInputMapMutex"},
     CloseOutputChannel |-> {"mOutputMapMutex"},
     CloseInputChannel |-> {"mInputMapMutex"},
     OpenAndBindOutputSockets |-> {"mOutputMapMutex"},
     OpenAndBindGranularOutputSocket |-> {"mOutputMapMutex"},
     OpenAndBindInputSockets |-> {"mInputMapMutex"},
     Send |-> {"mOutputMapMutex"},
     Receive |-> {"mInputMapMutex"}]

Callees ==
    [IsInputChannelOpen |-> {},
     IsOutputChannelOpen |-> {},
     OpenOutputChannel |-> {"IsOutputChannelOpen", "OpenAndBindOutputSockets",
                            "OpenAndBindGranularOutputSocket"},
     OpenInputChannel |-> {"IsInputChannelOpen", "OpenAndBindInputSockets"},
     CloseOutputChannel |-> {"IsOutputChannelOpen"},
     CloseInputChannel |-> {"IsInputChannelOpen"},
     OpenAndBindOutputSockets |-> {},
     OpenAndBindGranularOutputSocket |-> {},
     OpenAndBindInputSockets |-> {},
     Send |-> {"IsOutputChannelOpen"},
     Receive |-> {"IsInputChannelOpen"}]

\* the mutexes a thread locks in the course of a call of op
MutexesOf(op) == LockScopes[op] \cup UNION {LockScopes[f] : f \in Callees[op]}

\* a variant of the lock that excludes no thread
lock_shared(t, mutex) == TRUE

\* boost::unique_lock<boost::recursive_mutex> scopedLock(mutex) returns to
\* thread t: no other thread owns the mutex
unique_lock(t, mutex) == \A u \in Threads \ {t} : ~Holds(u, mutex)

\* Send, line 319: the lock is taken.  The buffer size of the call is kept
\* in the capacity of the locals of the thread.
SendLock(t, sendBufferSize, localLocator) ==
    /\ pc[t] = "idle"
    /\ unique_lock(t, "mOutputMapMutex")
    /\ pc' = [pc EXCEPT ![t] = "Send"]
    /\ call' = [call EXCEPT ![t] = localLocator]
    /\ rcv' = [rcv EXCEPT ![t] = [NoLocals EXCEPT !.capacity = sendBufferSize]]
    /\ last' = [Result("Send", t, AppCaller, localLocator, "running")
                   EXCEPT !.n = sendBufferSize]
    /\ UNCHANGED <<config, pools, sockets, res>>

\* Send, lines 320-322: IsOutputChannelOpen locks the mutex again
SendLookup(t) ==
    /\ pc[t] = "Send"
    /\ unique_lock(t, "mOutputMapMutex")
    /\ IF ~IsOutputChannelOpen(call[t]) \/ rcv[t].capacity > mSendBufferSize
       THEN /\ last' = [Result("Send", t, AppCaller, call[t], "false")
                           EXCEPT !.n = rcv[t].capacity]
            /\ pc' = [pc EXCEPT ![t] = "idle"]
            /\ call' = [call EXCEPT ![t] = NoLocator]
            /\ rcv' = [rcv EXCEPT ![t] = NoLocals]
       ELSE /\ pc' = [pc EXCEPT ![t] = "SendThroughSocket"]
            /\ UNCHANGED <<call, rcv, last>>
    /\ UNCHANGED <<config, pools, sockets, res>>

\* Send, lines 324-338: the transmissions and the return
SendTransmit(t, remoteLocator, sendOk) ==
    /\ pc[t] = "SendThroughSocket"
    /\ LET sent == SendFanOut(OutputSocketsOf(call[t]), sendOk)
       IN  /\ last' = [Result("Send", t, AppCaller, call[t],
                              Bool(SendSuccess(sent)))
                          EXCEPT !.n = rcv[t].capacity, !.sent = sent]
           /\ sockets' = Arrive(sockets, sent, 1, rcv[t].capacity,
                                remoteLocator)
    /\ pc' = [pc EXCEPT ![t] = "idle"]
    /\ call' = [call EXCEPT ![t] = NoLocator]
    /\ rcv' = [rcv EXCEPT ![t] = NoLocals]
    /\ UNCHANGED <<config, pools, res>>

\* Receive, line 379: the lock is taken
ReceiveLock(t) ==
    /\ pc[t] = "Receive"
    /\ unique_lock(t, "mInputMapMutex")
    /\ pc' = [pc EXCEPT ![t] = "ReceiveLocked"]
    /\ UNCHANGED <<config, pools, sockets, call, rcv, res, last>>

\* Receive, lines 380-387: the rest of the lock scope
ReceiveSubmitLocked(t) ==
    /\ pc[t] = "ReceiveLocked"
    /\ ReceiveSubmitScope(t)

(***************************************************************************)
(* ConcurrentSpec: the application threads make every call on the channels *)
(* of port 1 of a shared-mode transport without whitelist, at the same     *)
(* time.  A call that locks a mutex waits while another thread owns it.    *)
(***************************************************************************)
ConcurrentOutputCalls(t) ==
    \/ unique_lock(t, "mOutputMapMutex") /\ OpenOutputChannel(t, PortOne)
    \/ \E failAt \in 0..1 :
           unique_lock(t, "mOutputMapMutex") /\ OpenOutputChannelBind(t, failAt)
    \/ unique_lock(t, "mOutputMapMutex") /\ CloseOutputChannel(t, PortOne)
    \/ \E size \in Sizes : SendLock(t, size, PortOne)
    \/ SendLookup(t)
    \/ \E sendOk \in [IF pc[t] = "SendThroughSocket"
                      THEN DOMAIN OutputSocketsOf(call[t]) ELSE {} -> BOOLEAN] :
           SendTransmit(t, PeerLocator, sendOk)

ConcurrentInputCalls(t) ==
    \/ \E bindOk \in BOOLEAN :
           /\ unique_lock(t, "mInputMapMutex")
           /\ AppOpenInputChannel(t, PortOne, bindOk, TRUE)
    \/ unique_lock(t, "mInputMapMutex") /\ AppCloseInputChannel(t, PortOne)
    \/ \E capacity \in Sizes, outSize \in OutSizes :
           /\ unique_lock(t, "mInputMapMutex")
           /\ AppReceive(t, capacity, outSize, PortOne)
    \/ ReceiveLock(t)
    \/ ReceiveSubmitLocked(t)
    \/ ReceiveWait(t)

\* the step of thread t from a position within a lock scope
HolderStep(t) ==
    \/ SendLookup(t)
    \/ \E sendOk \in [IF pc[t] = "SendThroughSocket"
                      THEN DOMAIN OutputSocketsOf(call[t]) ELSE {} -> BOOLEAN] :
           SendTransmit(t, PeerLocator, sendOk)
    \/ ReceiveSubmitLocked(t)

ConcurrentNext ==
    \/ \E t \in Threads : ConcurrentOutputCalls(t)
    \/ \E t \in Threads : ConcurrentInputCalls(t)
    \/ IoService

ConcurrentSpec == SharedInit /\ [][ConcurrentNext]_vars

(***************************************************************************)
(* EndToEndSpec: the output side is that of transport A, the input side    *)
(* that of transport B of the same host, both shared-mode and without      *)
(* whitelist.  Thread t1 opens B's input channel of port 1 and receives on *)
(* it; thread t2 opens A's output channel of port 1, sends to B's locator  *)
(* and closes B's input channel.  The operating system completes a pending *)
(* receive when the receive buffer holds a datagram, the io_service thread *)
(* runs queued handlers and a thread whose semaphore was posted goes on.   *)
(***************************************************************************)

Receiver == "t1"
Sender == "t2"

ReceiverCalls ==
    \/ \E bindOk \in BOOLEAN :
           AppOpenInputChannel(Receiver, PortOne, bindOk, TRUE)
    \/ \E capacity \in Sizes, outSize \in OutSizes :
           AppReceive(Receiver, capacity, outSize, PortOne)
    \/ ReceiveSubmit(Receiver)
    \/ ReceiveWait(Receiver)

SenderCalls ==
    \/ OpenOutputChannel(Sender, PortOne)
    \/ \E failAt \in 0..1 : OpenOutputChannelBind(Sender, failAt)
    \/ \E size \in Sizes :
           \E sendOk \in [IF IsOutputChannelOpen(PortOne)
                          THEN DOMAIN OutputSocketsOf(PortOne) ELSE {} -> BOOLEAN] :
               Send(Sender, size, PortOne, HostLocator, sendOk)
    \/ AppCloseInputChannel(Sender, PortOne)

EndToEndNext ==
    \/ ReceiverCalls
    \/ SenderCalls
    \/ ReceiveQueued(Receiver)
    \/ ReceiveError(Receiver)
    \/ IoServiceRun(Receiver)

EndToEndSpec ==
    /\ SharedInit
    /\ [][EndToEndNext]_vars
    /\ WF_vars(ReceiveQueued(Receiver))
    /\ WF_vars(IoServiceRun(Receiver))
    /\ WF_vars(ReceiveWait(Receiver))

(***************************************************************************)
(* PROPERTIES                                                              *)
(***************************************************************************)
\* a map without its entry for k
MapExcept(f, k) == Restrict(f, DOMAIN f \ {k})

\* the sockets held by the three pools
PoolSockets ==
    Range(mInputSockets)
        \cup UNION {Range(mOutputSockets[p]) : p \in DOMAIN mOutputSockets}
        \cup Range(mGranularOutputSockets)

\* a call returned (or was entered) in this step
Called(op) == last' # last /\ last'.op = op

\* the channel a close call names is open, and its sockets
ChannelOpen(op, locator) ==
    IF op = "CloseInputChannel" THEN IsInputChannelOpen(locator)
    ELSE IsOutputChannelOpen(locator)

ChannelSockets(op, locator) ==
    IF op = "CloseInputChannel" THEN {mInputSockets[locator.port]}
    ELSE Range(OutputSocketsOf(locator))

\* the pool entry of the channel is gone and every other entry is as it was
EntryRemoved(op, locator) ==
    IF op = "CloseInputChannel"
    THEN /\ mInputSockets' = MapExcept(mInputSockets, locator.port)
         /\ UNCHANGED <<mOutputSockets, mGranularOutputSockets>>
    ELSE IF mGranularMode
    THEN /\ mGranularOutputSockets' = MapExcept(mGranularOutputSockets, locator)
         /\ UNCHANGED <<mInputSockets, mOutputSockets>>
    ELSE /\ mOutputSockets' = MapExcept(mOutputSockets, locator.port)
         /\ UNCHANGED <<mInputSockets, mGranularOutputSockets>>

(***************************************************************************)
(* C3: CloseInputChannel / CloseOutputChannel on an open channel returns   *)
(* true, having called cancel() and close() on every socket of the entry   *)
(* and removed the entry; on a channel that is not open it returns false   *)
(* and leaves the pools and the sockets as they were; and the same close   *)
(* called again right after one that returned true returns false and       *)
(* changes nothing.  Shared and granular mode, input and output pool.      *)
(***************************************************************************)
C3_CloseStep(op, locator) ==
    IF ChannelOpen(op, locator)
    THEN /\ last'.ret = "true"
         /\ last'.cancelled = ChannelSockets(op, locator)
         /\ last'.closed = ChannelSockets(op, locator)
         /\ DOMAIN sockets' = DOMAIN sockets \ ChannelSockets(op, locator)
         /\ \A s \in DOMAIN sockets' : sockets'[s] = sockets[s]
         /\ EntryRemoved(op, locator)
    ELSE /\ last'.ret = "false"
         /\ last'.cancelled = {} /\ last'.closed = {}
         /\ UNCHANGED <<pools, sockets>>

C3_CloseTwice ==
    [][\A op \in {"CloseInputChannel", "CloseOutputChannel"} :
        \A locator \in InputLocators \cup OutputLocators :
           /\ Called(op) /\ last'.loc = locator => C3_CloseStep(op, locator)
           /\ Called(op) /\ last'.loc = locator /\ last.op = op
                /\ last.loc = locator /\ last.ret = "true"
                => last'.ret = "false" /\ UNCHANGED <<pools, sockets>>]_vars

\* a shared-mode output channel of two sockets was closed
C3_Witness ==
    /\ last.op = "CloseOutputChannel" /\ last.ret = "true"
    /\ ~mGranularMode /\ Cardinality(last.closed) = 2

(***************************************************************************)
(* C4: an OpenInputChannel(L) that returns true leaves the channel of L    *)
(* open, and an open channel is closed only by a CloseInputChannel on its  *)
(* key; a CloseInputChannel(L) that returns true leaves the channel of L   *)
(* closed, and the call after it opens the channel only if it is an        *)
(* OpenInputChannel on its key that returns true.                          *)
(***************************************************************************)
C4_OpenCloseRoundTrip ==
    [][\A locator \in InputLocators :
          /\ Called("OpenInputChannel") /\ last'.loc = locator
                /\ last'.ret = "true" => IsInputChannelOpen(locator)'
          /\ IsInputChannelOpen(locator) /\ ~IsInputChannelOpen(locator)'
                => /\ last'.op = "CloseInputChannel"
                   /\ last'.loc.port = locator.port
          /\ Called("CloseInputChannel") /\ last'.loc = locator
                /\ last'.ret = "true" => ~IsInputChannelOpen(locator)'
          /\ last.op = "CloseInputChannel" /\ last.loc = locator
                /\ last.ret = "true" /\ IsInputChannelOpen(locator)'
                => /\ last'.op = "OpenInputChannel" /\ last'.ret = "true"
                   /\ last'.loc.port = locator.port]_vars

(***************************************************************************)
(* C5 as the specification states it: an OpenInputChannel or               *)
(* OpenOutputChannel that returns false for a locator of another kind or   *)
(* of a channel that is already open changes nothing in the pools and in   *)
(* the sockets, the multicast groups of an existing socket included.       *)
(***************************************************************************)
Rejected(op, locator) ==
    \/ ~IsLocatorSupported(locator)
    \/ IF op = "OpenInputChannel" THEN IsInputChannelOpen(locator)
       ELSE IsOutputChannelOpen(locator)

\* the step is thread last'.t entering an open call on locator
OpenCalled(op, locator) ==
    Called(op) /\ last'.loc = locator /\ pc[last'.t] = "idle"

C5_Original ==
    [][\A op \in {"OpenInputChannel", "OpenOutputChannel"} :
        \A locator \in InputLocators \cup OutputLocators :
            OpenCalled(op, locator) /\ Rejected(op, locator)
                /\ last'.ret = "false"
            => UNCHANGED <<pools, sockets>>]_vars

(***************************************************************************)
(* C5: an open call for a locator of another kind or of a channel that is  *)
(* already open never returns true, adds and removes no pool entry and     *)
(* creates and closes no socket.  OpenOutputChannel, and OpenInputChannel  *)
(* for a locator that is unsupported or not multicast, return false and    *)
(* leave every socket as it is.  OpenInputChannel for a multicast locator  *)
(* of an open port attempts the join on the existing socket of the port:   *)
(* when the join succeeds the call returns false and that socket is a      *)
(* member of the group of the locator, nothing else changed; when it does  *)
(* not, no socket changes.                                                 *)
(***************************************************************************)
JoinedSilently(locator) ==
    /\ DOMAIN sockets' = DOMAIN sockets
    /\ \A s \in DOMAIN sockets :
          sockets'[s] =
              IF s = mInputSockets[locator.port] /\ last'.join = "joined"
              THEN [sockets[s] EXCEPT
                       !.groups = @ \cup {to_IP4_string(locator)}]
              ELSE sockets[s]

C5_RejectedOpen ==
    [][\A op \in {"OpenInputChannel", "OpenOutputChannel"} :
        \A locator \in InputLocators \cup OutputLocators :
            OpenCalled(op, locator) /\ Rejected(op, locator)
            => /\ last'.ret # "true"
               /\ UNCHANGED <<pools, pc>>
               /\ last'.created = {} /\ last'.closed = {}
               /\ IF op = "OpenInputChannel" /\ IsLocatorSupported(locator)
                       /\ IsMulticastAddress(locator)
                  THEN /\ JoinedSilently(locator)
                       /\ last'.join # "none"
                       /\ last'.join = "joined" => last'.ret = "false"
                  ELSE /\ last'.ret = "false"
                       /\ last'.join = "none"
                       /\ UNCHANGED sockets]_vars

\* a multicast OpenInputChannel on an open port returned false after the
\* socket of the port joined the group
C5_Witness ==
    /\ last.op = "OpenInputChannel" /\ last.ret = "false"
    /\ last.join = "joined" /\ last.created = {}
    /\ to_IP4_string(last.loc) \in sockets[mInputSockets[last.loc.port]].groups

(***************************************************************************)
(* C7: a Send of admissible size on an open output channel attempts one    *)
(* transmission on every socket of the channel of localLocator, in the     *)
(* order of the pool entry and whatever the outcome of the ones before     *)
(* (one socket in granular mode, the sequence of the port in shared mode), *)
(* and returns true exactly when one of them succeeded; a Send on a        *)
(* channel that is not open returns false and transmits nothing.           *)
(***************************************************************************)
C7_SendFanOut ==
    last.op = "Send" =>
        IF ~IsOutputChannelOpen(last.loc)
        THEN last.ret = "false" /\ last.sent = <<>>
        ELSE last.n <= mSendBufferSize =>
                LET socks == OutputSocketsOf(last.loc)
                IN  /\ Len(last.sent) = Len(socks)
                    /\ \A i \in DOMAIN socks : last.sent[i].socket = socks[i]
                    /\ mGranularMode => Len(last.sent) = 1
                    /\ last.ret = "true" <=>
                           \E i \in DOMAIN last.sent : last.sent[i].ok
                    /\ last.ret \in {"true", "false"}

\* the first of two transmissions failed, the second was made and succeeded
C7_Witness ==
    /\ last.op = "Send" /\ last.ret = "true" /\ Len(last.sent) = 2
    /\ ~last.sent[1].ok /\ last.sent[2].ok

(***************************************************************************)
(* C8: when a socket call of the binding of OpenOutputChannel (shared or   *)
(* granular) or of OpenInputChannel throws, the call returns false, the    *)
(* pool has no entry for the channel key, no socket the call bound is      *)
(* still there, the pools hold exactly the sockets that exist, and the     *)
(* entries and the sockets of every other channel key are as they were.    *)
(***************************************************************************)
OtherEntriesUnchanged(op, locator) ==
    IF op = "OpenInputChannel"
    THEN /\ MapExcept(mInputSockets', locator.port)
                = MapExcept(mInputSockets, locator.port)
         /\ UNCHANGED <<mOutputSockets, mGranularOutputSockets>>
    ELSE IF mGranularMode
    THEN /\ MapExcept(mGranularOutputSockets', locator)
                = MapExcept(mGranularOutputSockets, locator)
         /\ UNCHANGED <<mInputSockets, mOutputSockets>>
    ELSE /\ MapExcept(mOutputSockets', locator.port)
                = MapExcept(mOutputSockets, locator.port)
         /\ UNCHANGED <<mInputSockets, mGranularOutputSockets>>

\* socket s is one of the channel that the open call op on locator is for
OfChannel(s, op, locator) ==
    IF op = "OpenInputChannel" THEN s = InputSocket(locator.port)
    ELSE IF mGranularMode
    THEN s.pool = "mGranularOutputSockets" /\ s.key = locator
    ELSE s.pool = "mOutputSockets" /\ s.key.port = locator.port

C8_BindFailureRollsBack ==
    [][/\ last' # last /\ last'.bindError
            => last'.op \in {"OpenInputChannel", "OpenOutputChannel"}
       /\ \A op \in {"OpenInputChannel", "OpenOutputChannel"} :
           \A locator \in InputLocators \cup OutputLocators :
              Called(op) /\ last'.loc = locator /\ last'.bindError =>
                 /\ last'.ret = "false"
                 /\ IF op = "OpenInputChannel"
                    THEN ~IsInputChannelOpen(locator)'
                    ELSE ~IsOutputChannelOpen(locator)'
                 /\ last'.created \cap DOMAIN sockets' = {}
                 /\ last'.created \subseteq last'.closed
                 /\ PoolSockets' = DOMAIN sockets'
                 /\ OtherEntriesUnchanged(op, locator)
                 /\ \A s \in DOMAIN sockets :
                       ~OfChannel(s, op, locator)
                           => s \in DOMAIN sockets' /\ sockets'[s] = sockets[s]
                 /\ \A s \in DOMAIN sockets' : s \in DOMAIN sockets]_vars

\* the second bind of a shared-mode open failed after the first socket was
\* bound, while another output channel and an input channel are open
C8_Witness ==
    /\ last.op = "OpenOutputChannel" /\ last.bindError /\ last.ret = "false"
    /\ last.created # {} /\ last.created \subseteq last.closed
    /\ DOMAIN mOutputSockets # {} /\ DOMAIN mInputSockets # {}

(***************************************************************************)
(* C10 as the specification states it: in shared mode an OpenOutputChannel *)
(* that returns true has created one socket when the whitelist is empty    *)
(* and as many sockets as the whitelist has entries when it is not.        *)
(***************************************************************************)
C10_Original ==
    last.op = "OpenOutputChannel" /\ last.ret = "true" /\ ~mGranularMode
        => Cardinality(last.created) =
              IF mInterfaceWhiteList = <<>> THEN 1
              ELSE Cardinality(Range(mInterfaceWhiteList))

(***************************************************************************)
(* C10: in shared mode an OpenOutputChannel on port P that returns true    *)
(* has created one socket bound to the wildcard address when the whitelist *)
(* is empty, and otherwise one socket for each IPv4 interface of the host  *)
(* whose address is in the whitelist, bound to that address (none when no  *)
(* whitelisted address is an interface of the host); every socket is bound *)
(* to port P and to an address for which IsInterfaceAllowed is true.       *)
(***************************************************************************)
WhitelistedInterfaces == Range(LocalIPs) \cap Range(mInterfaceWhiteList)

C10_SocketPerAllowedInterface ==
    last.op = "OpenOutputChannel" /\ last.ret = "true" /\ ~mGranularMode
        => /\ last.created \subseteq DOMAIN sockets
           /\ \A s \in last.created :
                 /\ sockets[s].port = last.loc.port
                 /\ IsInterfaceAllowed(sockets[s].ip)
           /\ IF mInterfaceWhiteList = <<>>
              THEN /\ Cardinality(last.created) = 1
                   /\ \A s \in last.created : sockets[s].ip = AnyIP
              ELSE /\ Cardinality(last.created)
                          = Cardinality(WhitelistedInterfaces)
                   /\ {sockets[s].ip : s \in last.created}
                          = WhitelistedInterfaces
           /\ (last.created = {}) = ~IsOutputChannelOpen(last.loc)
           /\ last.created # {} =>
                 Range(mOutputSockets[last.loc.port]) = last.created

\* an open with a whitelist of two local interfaces created two sockets
C10_Witness ==
    /\ last.op = "OpenOutputChannel" /\ last.ret = "true" /\ ~mGranularMode
    /\ Len(mInterfaceWhiteList) = 2 /\ Cardinality(last.created) = 2

(***************************************************************************)
(* C6: a Send whose size is greater than mSendBufferSize returns false     *)
(* with no transmission made, and a Receive whose capacity is smaller than *)
(* mReceiveBufferSize returns false in the step of the call, with no       *)
(* asynchronous receive submitted and the thread not waiting; in both      *)
(* cases whether the channel is open or not.                               *)
(***************************************************************************)
C6_SizeBounds ==
    [][/\ Called("Send") /\ last'.n > mSendBufferSize
            => /\ last'.ret = "false" /\ last'.sent = <<>>
               /\ UNCHANGED <<pools, sockets, pc, rcv>>
       /\ Called("Receive") /\ last'.n < mReceiveBufferSize
            => /\ last'.ret = "false"
               /\ pc[last'.t] = "idle"
               /\ rcv[last'.t].op = "none"
               /\ UNCHANGED <<pools, sockets, pc, rcv>>]_vars

\* an undersize Receive on an open input channel was refused
C6_Witness ==
    /\ last.op = "Receive" /\ last.n < mReceiveBufferSize /\ last.ret = "false"
    /\ IsInputChannelOpen(last.loc) /\ pc[last.t] = "idle"

(***************************************************************************)
(* C2 as the specification states it: the destructor of a receiver         *)
(* resource that was aborted closes no channel: the CloseInputChannel it   *)
(* makes, if any, returns false, having closed no socket.                  *)
(***************************************************************************)
C2_DestructorAfterAbort ==
    last.op = "CloseInputChannel" /\ last.caller.method = "~ReceiverResource"
            /\ res[last.caller.res].aborted
        => last.ret = "false" /\ last.closed = {}

(***************************************************************************)
(* C9 as the specification states it: an OpenInputChannel for a multicast  *)
(* locator that bound the socket of the port and then failed to join the   *)
(* group returns true with the channel open, and the receiver resource     *)
(* whose constructor made the call is valid and closes that channel.       *)
(***************************************************************************)
C9_JoinFailureTolerated ==
    last.op = "OpenInputChannel" /\ last.join = "failed" /\ last.created # {}
        => /\ last.ret = "true"
           /\ IsInputChannelOpen(last.loc)
           /\ last.caller.method = "ReceiverResource"
                => /\ res[last.caller.res].state = "alive"
                   /\ res[last.caller.res].mValid
                   /\ res[last.caller.res].Cleanup = last.loc

(***************************************************************************)
(* C1: a CloseInputChannel that returns true completes, with an error,     *)
(* every receive outstanding on the socket of the channel; a Receive whose *)
(* outstanding receive was so cancelled returns, under FairSpec, and the   *)
(* Receive that returns after such a cancellation returns false with       *)
(* outSize = 0.                                                            *)
(***************************************************************************)
C1_CloseCancels ==
    [][\A t \in Threads :
          Called("CloseInputChannel") /\ last'.ret = "true"
              /\ pc[t] = "Wait" /\ rcv[t].op = "pending"
              /\ call[t].port = last'.loc.port
          => rcv'[t].cancelled /\ rcv'[t].op = "ready"]_vars

C1_CancelledReturns ==
    \A t \in Threads :
        (pc[t] = "Wait" /\ rcv[t].cancelled)
            ~> (/\ last.op = "Receive" /\ last.t = t /\ last.aborted
                /\ last.ret = "false" /\ last.outSize = 0)

C1_CancelledReturnsFalse ==
    [](last.op = "Receive" /\ last.aborted
          => last.ret = "false" /\ last.outSize = 0)

C1_ConcurrentCloseCancelsReceive ==
    C1_CloseCancels /\ C1_CancelledReturns /\ C1_CancelledReturnsFalse

\* a Receive that was blocked when the other thread closed its channel has
\* returned false, its caller's outSize, not zero at the call, now zero
C1_Witness ==
    /\ last.op = "Receive" /\ last.aborted /\ last.ret = "false"
    /\ last.outSize = 0 /\ pc[last.t] = "idle"

(***************************************************************************)
(* C11: in granular mode, for two distinct supported locators L1 and L2 of *)
(* one port: whether OpenOutputChannel(L1) is rejected depends on the      *)
(* entry of L1 alone; an open of L1 that returns true has made an entry    *)
(* for L1 with one socket of its own and left the entry and the socket of  *)
(* L2 as they were; CloseOutputChannel(L1) leaves the entry and the socket *)
(* of L2 as they were, so that L2 stays open; and a Send of admissible     *)
(* size on L2 transmits on the socket of L2.                               *)
(***************************************************************************)
SamePortPairs ==
    {pair \in OutputLocators \X OutputLocators :
        /\ pair[1] # pair[2] /\ pair[1].port = pair[2].port
        /\ IsLocatorSupported(pair[1]) /\ IsLocatorSupported(pair[2])}

\* the granular entry of locator and its socket are as they were
GranularEntryKept(locator) ==
    /\ (locator \in DOMAIN mGranularOutputSockets')
            = (locator \in DOMAIN mGranularOutputSockets)
    /\ locator \in DOMAIN mGranularOutputSockets =>
          /\ mGranularOutputSockets'[locator] = mGranularOutputSockets[locator]
          /\ mGranularOutputSockets[locator] \in DOMAIN sockets'
          /\ sockets'[mGranularOutputSockets[locator]]
                = sockets[mGranularOutputSockets[locator]]
          /\ IsOutputChannelOpen(locator)'

C11_GranularIndependence ==
    [][mGranularMode => \A pair \in SamePortPairs :
        LET L1 == pair[1]
            L2 == pair[2]
        IN  /\ OpenCalled("OpenOutputChannel", L1)
                => /\ (last'.ret = "false")
                         = (L1 \in DOMAIN mGranularOutputSockets)
                   /\ GranularEntryKept(L2)
            /\ Called("OpenOutputChannel") /\ last'.loc = L1
                    /\ last'.ret = "true"
                => /\ L1 \in DOMAIN mGranularOutputSockets'
                   /\ last'.created = {mGranularOutputSockets'[L1]}
                   /\ L2 \in DOMAIN mGranularOutputSockets' =>
                         mGranularOutputSockets'[L2]
                             # mGranularOutputSockets'[L1]
                   /\ sockets'[mGranularOutputSockets'[L1]].ip
                         = to_IP4_string(L1)
                   /\ GranularEntryKept(L2)
            /\ Called("CloseOutputChannel") /\ last'.loc = L1
                => GranularEntryKept(L2)
            /\ Called("Send") /\ last'.loc = L2
                    /\ L2 \in DOMAIN mGranularOutputSockets
                    /\ last'.n <= mSendBufferSize
                => /\ Len(last'.sent) = 1
                   /\ last'.sent[1].socket = mGranularOutputSockets[L2]
                   /\ last'.ret = Bool(last'.sent[1].ok)]_vars

\* one of two granular channels of a port was closed and the other is open
C11_Witness ==
    /\ mGranularMode
    /\ last.op = "CloseOutputChannel" /\ last.ret = "true"
    /\ \E locator \in DOMAIN mGranularOutputSockets :
          /\ locator # last.loc /\ locator.port = last.loc.port
          /\ mGranularOutputSockets[locator] \in DOMAIN sockets

(***************************************************************************)
(* C12 as the specification states it: a move construction gives the new   *)
(* resource the Cleanup, ReceiveFromAssociatedChannel and                  *)
(* LocatorMapsToManagedChannel of its source and leaves the source with    *)
(* none, so that Abort and the destructor of the source close nothing and  *)
(* its Receive and SupportsLocator return false; and the Cleanup that was  *)
(* moved closes a channel once: source and destination together make no    *)
(* second close that returns true.                                         *)
(***************************************************************************)
\* the step move-constructs dst from src
Moves(dst, src) ==
    /\ res[dst].state = "unconstructed" /\ res'[dst].state = "alive"
    /\ res'[dst].source = src

C12_Transferred ==
    \A dst \in Resources, src \in Resources :
        Moves(dst, src) =>
            /\ res'[dst].Cleanup = res[src].Cleanup
            /\ res'[dst].ReceiveFromAssociatedChannel
                  = res[src].ReceiveFromAssociatedChannel
            /\ res'[dst].LocatorMapsToManagedChannel
                  = res[src].LocatorMapsToManagedChannel
            /\ res'[src].Cleanup = NoLocator
            /\ res'[src].ReceiveFromAssociatedChannel = NoLocator
            /\ res'[src].LocatorMapsToManagedChannel = NoLocator
            /\ UNCHANGED <<pools, sockets>>

C12_SourceInert ==
    \A src \in Resources :
        res[src].moved =>
            /\ \A locator \in InputLocators : ~SupportsLocator(src, locator)
            /\ res'[src] # res[src]
                => /\ res'[src].aborted \/ res'[src].state = "destroyed"
                   /\ UNCHANGED <<pools, sockets, last>>
            /\ last'.caller.res = src /\ last' # last
                => /\ last'.op = "Receive" /\ last'.ret = "false"
                   /\ UNCHANGED <<pools, sockets, pc, rcv>>

C12_ClosedOnce ==
    \A r \in Resources :
        Called("CloseInputChannel") /\ last'.caller.res = r
                /\ (res[r].source # "none" \/ res[r].moved)
                /\ last'.ret = "true"
            => ~res[r].closed

C12_MoveTransfersClose ==
    [][C12_Transferred /\ C12_SourceInert /\ C12_ClosedOnce]_vars

(***************************************************************************)
(* C13 as the specification states it: a Receive made on a resource after  *)
(* Abort was called on it does not return true, that is, delivers no       *)
(* datagram, whatever was done to the transport in between.  (In           *)
(* ResourceSpec the thread that calls Abort is the one that calls Receive, *)
(* so a Receive that returns on an aborted resource was made after the     *)
(* Abort.)                                                                 *)
(***************************************************************************)
C13_ClosedIsTerminal ==
    last.op = "Receive" /\ last.caller.res \in Resources
        => (res[last.caller.res].aborted
               => last.ret # "true" /\ last.remote = NoLocator)

(***************************************************************************)
(* C14 as the specification states it: for every remote locator the        *)
(* locator RemoteToMainLocal returns has the kind and the port of remote   *)
(* and a zero address.                                                     *)
(***************************************************************************)
C14_Original ==
    last.op = "RemoteToMainLocal"
        => /\ last.mainLocal.kind = last.loc.kind
           /\ last.mainLocal.port = last.loc.port
           /\ \A i \in 1..16 : last.mainLocal.address[i] = 0

(***************************************************************************)
(* C14: for every remote locator of the kind of the transport the locator  *)
(* RemoteToMainLocal returns has the kind and the port of remote and 16    *)
(* zero address bytes; for a remote locator of another kind it returns the *)
(* locator that false converts to, the same whatever remote is.            *)
(***************************************************************************)
C14_MainLocal ==
    last.op = "RemoteToMainLocal"
        => IF IsLocatorSupported(last.loc)
           THEN /\ last.mainLocal.kind = last.loc.kind
                /\ last.mainLocal.port = last.loc.port
                /\ DOMAIN last.mainLocal.address = 1..16
                /\ \A i \in 1..16 : last.mainLocal.address[i] = 0
           ELSE \A remote \in RemoteLocators :
                   ~IsLocatorSupported(remote)
                       => RemoteToMainLocal(remote) = last.mainLocal

\* a supported remote locator with a non-zero address was normalised
C14_Witness ==
    /\ last.op = "RemoteToMainLocal" /\ IsLocatorSupported(last.loc)
    /\ last.loc.address[13] # 0 /\ last.mainLocal.address[13] = 0
    /\ last.mainLocal.port = last.loc.port

\* what a call of thread t is after a Receive that a datagram of n bytes from
\* the socket at endpoint completed, or that an error or a cancellation ended
Returned(t, n, endpoint) ==
    /\ last.op = "Receive" /\ last.t = t /\ pc[t] = "idle"
    /\ \/ /\ last.ret = "true" /\ last.outSize = n
          /\ last.remote.port = endpoint.port
          /\ to_IP4_string(last.remote) = endpoint.address
       \/ last.ret = "false" /\ last.outSize = 0

\* the receive of thread t is pending on a socket whose receive buffer holds
\* a datagram of n bytes first
Delivering(t, n) ==
    /\ pc[t] = "Wait" /\ rcv[t].op = "pending"
    /\ rcv[t].sock \in DOMAIN sockets
    /\ sockets[rcv[t].sock].queue # <<>>
    /\ Head(sockets[rcv[t].sock].queue).bytes = n

\* the endpoint of the one socket of A's output channel of port 1
SenderEndpoint == [address |-> LocalIPs[1], port |-> 1]

\* C15: when transport A opens an output channel and sends n bytes to the
\* locator of transport B's open input channel, the datagram enters the receive
\* buffer of B's socket with n bytes and the endpoint of A's sending socket; a
\* Receive of B that is pending on it eventually returns, with true, outSize n
\* and that endpoint as outRemoteLocator, or, when an I/O error or a
\* cancellation ended it, with false and outSize 0; a Receive never returns
\* anything else.
C15_EndToEnd ==
    /\ [][/\ Called("Send") /\ last'.ret = "true"
             /\ InputSocket(1) \in DOMAIN sockets
             /\ Len(sockets[InputSocket(1)].queue) < MaxQueue
             => /\ \A s \in Range(last'.sent) :
                      s.ok => SourceEndpoint(s.socket) = SenderEndpoint
                /\ sockets'[InputSocket(1)].queue =
                      Append(sockets[InputSocket(1)].queue,
                             [bytes |-> last'.n, sender |-> SenderEndpoint])
          /\ pc[Receiver] = "Wait" /\ pc'[Receiver] = "idle"
             => /\ last'.ret = Bool(~rcv[Receiver].error)
                /\ \A n \in Sizes, endpoint \in {SenderEndpoint, NoLocals.sender} :
                      rcv[Receiver].bytes = n /\ rcv[Receiver].sender = endpoint
                      => Returned(Receiver, n, endpoint)']_vars
    /\ \A n \in 0..mSendBufferSize :
          Delivering(Receiver, n) ~> Returned(Receiver, n, SenderEndpoint)

C15_Witness ==
    /\ Returned(Receiver, mSendBufferSize, SenderEndpoint)
    /\ last.ret = "true"
    /\ IsOutputChannelOpen(PortOne)

\* C16: concurrent OpenOutputChannel calls on one channel key serialize: a
\* call that binds when the channel is already open (another thread's call
\* opened it since this call's check) returns false and leaves the pool as it
\* is, so at most one call returns true, the entry holds only the sockets of
\* the successful call and a failed open never erases an open channel.
C16_ConcurrentOpenSerialized ==
    [][\A t \in Threads, locator \in OutputLocators :
          /\ pc[t] = "OpenOutputChannel" /\ pc'[t] = "idle"
          /\ call[t] = locator
          /\ IsOutputChannelOpen(locator)
          => last'.ret = "false" /\ UNCHANGED pools]_vars

\* thread t submits an asynchronous receive in this step
Submits(t) == rcv[t].op # "pending" /\ rcv'[t].op = "pending"

\* C17: a receive is submitted only by a thread that holds the input mutex,
\* alone, while the channel's entry is in the input pool, and on the socket of
\* that entry; a Receive that finds the entry gone under the lock returns
\* false and submits nothing; a close of the socket of a pending receive
\* cancels that receive; so a pending receive is never on a socket that was
\* closed or removed.
C17_SubmitUnderLock ==
    /\ [](\A t \in Threads :
             rcv[t].op = "pending"
             => /\ rcv[t].sock \in DOMAIN sockets
                /\ IsInputChannelOpen(call[t])
                /\ mInputSockets[call[t].port] = rcv[t].sock)
    /\ [][\A t \in Threads :
             /\ Submits(t)
                => /\ Holds(t, "mInputMapMutex")
                   /\ \A u \in Threads \ {t} : ~Holds(u, "mInputMapMutex")
                   /\ IsInputChannelOpen(call[t])
                   /\ rcv'[t].sock = mInputSockets[call[t].port]
                   /\ rcv'[t].sock \in DOMAIN sockets
                   /\ UNCHANGED <<pools, sockets>>
             /\ pc[t] = "ReceiveLocked" /\ pc'[t] # "ReceiveLocked"
                /\ ~IsInputChannelOpen(call[t])
                => /\ ~Submits(t)
                   /\ pc'[t] = "idle"
                   /\ last'.op = "Receive" /\ last'.t = t /\ last'.ret = "false"
             /\ rcv[t].op = "pending" /\ rcv[t].sock \notin DOMAIN sockets'
                => /\ Called("CloseInputChannel")
                   /\ rcv'[t].op = "ready" /\ rcv'[t].cancelled]_vars

\* the close of another thread cancelled the receive thread t had submitted
C17_Witness ==
    \E t \in Threads :
        /\ pc[t] = "Wait" /\ rcv[t].cancelled
        /\ last.op = "CloseInputChannel" /\ last.t # t /\ last.ret = "true"
        /\ rcv[t].sock \in last.cancelled

\* C18: Send holds the output mutex only while it looks up the sockets of
\* localLocator: a thread that is transmitting does not hold the mutex, and
\* the output calls of the other threads can take it.
C18_TransmitsUnlocked ==
    \A t \in Threads :
        pc[t] = "SendThroughSocket"
        => /\ ~Holds(t, "mOutputMapMutex")
           /\ \A u \in Threads \ {t} : unique_lock(u, "mOutputMapMutex")

\* C19: whenever OpenOutputChannel(L) returned true, in shared mode with any
\* whitelist and in granular mode, the output channel of L is open and its
\* pool entry holds at least one socket; an OpenOutputChannel(L) called next
\* returns false and a CloseOutputChannel(L) called next returns true.
C19_OpenedMeansOpen ==
    /\ [](last.op = "OpenOutputChannel" /\ last.ret = "true"
          => /\ IsOutputChannelOpen(last.loc)
             /\ Len(OutputSocketsOf(last.loc)) >= 1)
    /\ [][\A locator \in OutputLocators :
             /\ last.op = "OpenOutputChannel" /\ last.ret = "true"
             /\ last.loc = locator /\ last'.loc = locator
             => /\ Called("OpenOutputChannel") => last'.ret = "false"
                /\ Called("CloseOutputChannel") => last'.ret = "true"]_vars

\* C20: no thread holds the input mutex and the output mutex at once, and no
\* call locks both; a thread that waits for the completion of its receive
\* holds neither; a mutex has one owner at a time, who alone locks it again;
\* a call starts only when the mutexes it locks are free or its own; the
\* owner of a mutex never waits, so every mutex is released and no mix of
\* calls deadlocks; and an idle thread can start a call on the output pool
\* whenever no other thread owns the output mutex, whatever the threads in
\* the input operations do.
C20_LockDiscipline ==
    /\ [](/\ \A op \in DOMAIN LockScopes : Cardinality(MutexesOf(op)) <= 1
          /\ \A mutex \in Mutexes :
                Cardinality({t \in Threads : Holds(t, mutex)}) <= 1
          /\ \A t \in Threads :
                /\ ~(Holds(t, "mInputMapMutex") /\ Holds(t, "mOutputMapMutex"))
                /\ pc[t] = "Wait" => \A mutex \in Mutexes : ~Holds(t, mutex)
                /\ (\E mutex \in Mutexes : Holds(t, mutex)) => ENABLED HolderStep(t)
                /\ pc[t] = "idle" /\ unique_lock(t, "mOutputMapMutex")
                   => ENABLED ConcurrentOutputCalls(t))
    /\ [][\A t \in Threads, op \in DOMAIN LockScopes :
             pc[t] = "idle" /\ Called(op) /\ last'.t = t
             => \A mutex \in MutexesOf(op) : unique_lock(t, mutex)]_vars

\* one thread transmits inside Send, owning the output mutex, while the
\* other is in the lock scope of Receive, owning the input mutex
C20_Witness ==
    \E t \in Threads : \E u \in Threads \ {t} :
        /\ pc[t] = "SendThroughSocket" /\ Holds(t, "mOutputMapMutex")
        /\ pc[u] = "ReceiveLocked" /\ Holds(u, "mInputMapMutex")

=============================================================================
